---- MODULE Spec2Model ----
(***************************************************************************)
(* Model of the CSV cleaning pipeline of assignment_ftp_interface          *)
(* (models/csv_cleaner.py): clean_device_data and clean_content_data and   *)
(* the helpers they share.  A text is a sequence of one-character strings, *)
(* so that the regular expressions and the str methods of the code are     *)
(* modelled by what they do to the characters.                             *)
(***************************************************************************)
EXTENDS Integers, Sequences, FiniteSets, TLC

(***************************************************************************)
(* Characters                                                              *)
(***************************************************************************)
DQ == "\""
NL == "\n"
\* U+00B2 SUPERSCRIPT TWO, one character: str.isdigit() is true of it,
\* int() rejects it and the regular expression class \d does not match it.
SUP2 == "sup2"

DigitSeq == <<"0", "1", "2", "3", "4", "5", "6", "7", "8", "9">>
UpperSeq == <<"A", "B", "C", "D", "E", "F", "G", "H", "I", "J", "K", "L", "M",
              "N", "O", "P", "Q", "R", "S", "T", "U", "V", "W", "X", "Y", "Z">>
LowerSeq == <<"a", "b", "c", "d", "e", "f", "g", "h", "i", "j", "k", "l", "m",
              "n", "o", "p", "q", "r", "s", "t", "u", "v", "w", "x", "y", "z">>

Range(f) == {f[k] : k \in DOMAIN f}

\* \d of the re module, and the characters int() accepts
Digits == Range(DigitSeq)
\* [A-Z]
Upper == Range(UpperSeq)
\* \s of the re module and the characters str.strip() removes
Whitespace == {" ", "\t", NL}

DigitVal(c) == (CHOOSE k \in 1..10 : DigitSeq[k] = c) - 1

\* str.lower() on one character
LowerChar(c) ==
  IF c \in Upper THEN LowerSeq[CHOOSE k \in 1..26 : UpperSeq[k] = c] ELSE c

\* the code point of a character that can occur in a datetime match
CodePoint(c) ==
  CASE c = "\t" -> 9
    [] c = NL -> 10
    [] c = " " -> 32
    [] c = "+" -> 43
    [] c = "-" -> 45
    [] c = "." -> 46
    [] c \in Digits -> 48 + DigitVal(c)
    [] c = ":" -> 58

(***************************************************************************)
(* str methods                                                             *)
(***************************************************************************)
SetMin(S) == CHOOSE x \in S : \A y \in S : x <= y
SetMax(S) == CHOOSE x \in S : \A y \in S : y <= x

\* the first index >= k of s whose character is not in chars (Len(s)+1 if none)
RECURSIVE SkipChars(_, _, _)
SkipChars(s, k, chars) ==
  IF k > Len(s) \/ s[k] \notin chars THEN k ELSE SkipChars(s, k + 1, chars)

\* the last index <= k of s whose character is not in chars (0 if none)
RECURSIVE SkipCharsBack(_, _, _)
SkipCharsBack(s, k, chars) ==
  IF k < 1 \/ s[k] \notin chars THEN k ELSE SkipCharsBack(s, k - 1, chars)

\* s.strip(chars): drop the leading and trailing characters that are in chars
StripChars(s, chars) ==
  SubSeq(s, SkipChars(s, 1, chars), SkipCharsBack(s, Len(s), chars))

\* s.rstrip(chars)
RStripChars(s, chars) == SubSeq(s, 1, SkipCharsBack(s, Len(s), chars))

\* s.strip()
Strip(s) == StripChars(s, Whitespace)

\* s.lower()
Lower(s) == [k \in 1..Len(s) |-> LowerChar(s[k])]

\* sep.join(parts)
RECURSIVE JoinFrom(_, _, _, _)
JoinFrom(parts, sep, k, acc) ==
  IF k > Len(parts) THEN acc
  ELSE JoinFrom(parts, sep, k + 1,
                IF k = 1 THEN parts[k] ELSE acc \o sep \o parts[k])

Join(parts, sep) == JoinFrom(parts, sep, 1, <<>>)

\* int(s) for a non-empty text of decimal digits
RECURSIVE IntFrom(_, _, _)
IntFrom(s, k, acc) ==
  IF k > Len(s) THEN acc ELSE IntFrom(s, k + 1, 10 * acc + DigitVal(s[k]))

Int_(s) == IntFrom(s, 1, 0)

\* the first index >= k of s whose character is not whitespace (Len(s)+1 if none)
SkipSpace(s, k) == SkipChars(s, k, Whitespace)

\* the first index >= k of s whose character is not a digit (Len(s)+1 if none)
SkipDigits(s, k) == SkipChars(s, k, Digits)

(***************************************************************************)
(* Matching as the re module does it                                       *)
(***************************************************************************)
IsDigitAt(s, k) == k >= 1 /\ k <= Len(s) /\ s[k] \in Digits
IsCharAt(s, k, c) == k >= 1 /\ k <= Len(s) /\ s[k] = c

\* The matches re.sub, re.findall and str.split take in a text: leftmost
\* first, none overlapping.  ends[k] is where the match of the pattern that
\* starts at index k ends, 0 when none starts there (no pattern here matches
\* the empty text).  Each match is <<first index, last index>>.
RECURSIVE TakeMatches(_, _, _)
TakeMatches(ends, k, acc) ==
  LET starts == {j \in k..Len(ends) : ends[j] > 0}
  IN  IF starts = {} THEN acc
      ELSE TakeMatches(ends, ends[SetMin(starts)] + 1,
                       Append(acc, <<SetMin(starts), ends[SetMin(starts)]>>))

Matches(ends) == TakeMatches(ends, 1, <<>>)

\* the texts before, between and after the matches: one more than the matches
Between(s, ms) ==
  [j \in 1..Len(ms) + 1 |->
     SubSeq(s, IF j = 1 THEN 1 ELSE ms[j - 1][2] + 1,
               IF j > Len(ms) THEN Len(s) ELSE ms[j][1] - 1)]

\* s with match j replaced by repl[j]
RECURSIVE SubFrom(_, _, _, _)
SubFrom(pieces, repl, j, acc) ==
  IF j > Len(repl) THEN acc \o pieces[j]
  ELSE SubFrom(pieces, repl, j + 1, acc \o pieces[j] \o repl[j])

Sub(s, ms, repl) == SubFrom(Between(s, ms), repl, 1, <<>>)

\* s.split(sep) for a one-character sep: always at least one field
Split(s, sep) ==
  Between(s, Matches([k \in 1..Len(s) |-> IF s[k] = sep THEN k ELSE 0]))

(***************************************************************************)
(* _preprocess_and_split_line                                              *)
(***************************************************************************)
\* (\d)(") at k
DigitQuoteEnd(s, k) ==
  IF s[k] \in Digits /\ IsCharAt(s, k + 1, DQ) THEN k + 1 ELSE 0

\* "\s*" at k
QuoteQuoteEnd(s, k) ==
  IF s[k] = DQ /\ IsCharAt(s, SkipSpace(s, k + 1), DQ)
  THEN SkipSpace(s, k + 1) ELSE 0

\* \s*<delimiter>\s* at k
SpaceDelimiterEnd(s, delimiter, k) ==
  IF IsCharAt(s, SkipSpace(s, k), delimiter)
  THEN SkipSpace(s, SkipSpace(s, k) + 1) - 1 ELSE 0

_preprocess_and_split_line(line, delimiter) ==
  LET stripped == Strip(line)
      ms1 == Matches([k \in 1..Len(stripped) |-> DigitQuoteEnd(stripped, k)])
      \* r'\1' + delimiter + r'\2'
      corrected1 ==
        Sub(stripped, ms1,
            [j \in 1..Len(ms1) |-> <<stripped[ms1[j][1]], delimiter, DQ>>])
      ms2 == Matches([k \in 1..Len(corrected1) |-> QuoteQuoteEnd(corrected1, k)])
      \* f'"{delimiter}"'
      corrected_line ==
        Sub(corrected1, ms2, [j \in 1..Len(ms2) |-> <<DQ, delimiter, DQ>>])
      ms3 == Matches([k \in 1..Len(corrected_line) |->
                        SpaceDelimiterEnd(corrected_line, delimiter, k)])
      standardized_line ==
        RStripChars(Sub(corrected_line, ms3,
                        [j \in 1..Len(ms3) |-> <<delimiter>>]),
                    {delimiter})
  IN  Split(standardized_line, delimiter)

(***************************************************************************)
(* Datetime helpers                                                        *)
(***************************************************************************)
\* Where a match of
\*   \d{4}-\d{2}-\d{2}\s+\d{2}:\d{2}:\d{2}(?:\.\d+)?(?:[+-]\d{2}:\d{2})?
\* that starts at index k of s ends; 0 when there is no match at k.
TimeStart(s, k) == SkipSpace(s, k + 10)

DatetimeMatchEnd(s, k) ==
  LET t == TimeStart(s, k)
      core ==
        /\ IsDigitAt(s, k) /\ IsDigitAt(s, k + 1)
        /\ IsDigitAt(s, k + 2) /\ IsDigitAt(s, k + 3)
        /\ IsCharAt(s, k + 4, "-")
        /\ IsDigitAt(s, k + 5) /\ IsDigitAt(s, k + 6)
        /\ IsCharAt(s, k + 7, "-")
        /\ IsDigitAt(s, k + 8) /\ IsDigitAt(s, k + 9)
        /\ t > k + 10
        /\ IsDigitAt(s, t) /\ IsDigitAt(s, t + 1)
        /\ IsCharAt(s, t + 2, ":")
        /\ IsDigitAt(s, t + 3) /\ IsDigitAt(s, t + 4)
        /\ IsCharAt(s, t + 5, ":")
        /\ IsDigitAt(s, t + 6) /\ IsDigitAt(s, t + 7)
      e0 == t + 7
      e1 == IF IsCharAt(s, e0 + 1, ".") /\ IsDigitAt(s, e0 + 2)
            THEN SkipDigits(s, e0 + 2) - 1 ELSE e0
      e2 == IF /\ (IsCharAt(s, e1 + 1, "+") \/ IsCharAt(s, e1 + 1, "-"))
               /\ IsDigitAt(s, e1 + 2) /\ IsDigitAt(s, e1 + 3)
               /\ IsCharAt(s, e1 + 4, ":")
               /\ IsDigitAt(s, e1 + 5) /\ IsDigitAt(s, e1 + 6)
            THEN e1 + 6 ELSE e1
  IN  IF core THEN e2 ELSE 0

\* re.findall(pattern, text)
FindAllDatetimes(text) ==
  LET ms == Matches([k \in 1..Len(text) |-> DatetimeMatchEnd(text, k)])
  IN  [j \in 1..Len(ms) |-> SubSeq(text, ms[j][1], ms[j][2])]

\* a < b for Python strings: by code point at the first difference, a proper
\* prefix being the smaller
StrLess(a, b) ==
  LET diff == {k \in 1..Len(a) : k > Len(b) \/ a[k] # b[k]}
  IN  IF diff = {} THEN Len(a) < Len(b)
      ELSE /\ SetMin(diff) <= Len(b)
           /\ CodePoint(a[SetMin(diff)]) < CodePoint(b[SetMin(diff)])

\* max(matches)
StrMax(matches) ==
  matches[CHOOSE k \in 1..Len(matches) :
            \A j \in 1..Len(matches) : ~StrLess(matches[k], matches[j])]

_extract_latest_datetime_str(text) ==
  LET matches == FindAllDatetimes(text)
  IN  IF Len(matches) = 0 THEN [ok |-> FALSE, str |-> <<>>]
      ELSE IF Len(matches) > 1 THEN [ok |-> TRUE, str |-> StrMax(matches)]
      ELSE [ok |-> TRUE, str |-> matches[1]]

\* the calendar of datetime: leap years, days of a month, proleptic ordinal
IsLeap(year) == year % 4 = 0 /\ (year % 100 # 0 \/ year % 400 = 0)

DaysInMonth(year, month) ==
  IF month = 2 THEN (IF IsLeap(year) THEN 29 ELSE 28)
  ELSE IF month \in {4, 6, 9, 11} THEN 30 ELSE 31

\* datetime(year, month, day) raises ValueError unless this holds
ValidDate(year, month, day) ==
  /\ year >= 1 /\ year <= 9999
  /\ month >= 1 /\ month <= 12
  /\ day >= 1 /\ day <= DaysInMonth(year, month)

RECURSIVE DaysBeforeMonth(_, _)
DaysBeforeMonth(year, month) ==
  IF month = 1 THEN 0
  ELSE DaysBeforeMonth(year, month - 1) + DaysInMonth(year, month - 1)

ToOrdinal(year, month, day) ==
  LET y == year - 1
  IN  y * 365 + (y \div 4) - (y \div 100) + (y \div 400)
      + DaysBeforeMonth(year, month) + day

\* the largest ordinal of a date: 9999-12-31
MaxOrdinal == ToOrdinal(9999, 12, 31)

\* date.fromordinal(n)
FromOrdinal(n) ==
  LET n0 == n - 1
      n400 == n0 \div 146097
      r400 == n0 % 146097
      n100 == r400 \div 36524
      r100 == r400 % 36524
      n4 == r100 \div 1461
      r4 == r100 % 1461
      n1 == r4 \div 365
      r1 == r4 % 365
      year == n400 * 400 + 1 + n100 * 100 + n4 * 4 + n1
      m0 == (r1 + 50) \div 32
      before0 == DaysBeforeMonth(year, m0)
      month == IF before0 > r1 THEN m0 - 1 ELSE m0
      before == DaysBeforeMonth(year, month)
  IN  IF n1 = 4 \/ n100 = 4
      THEN [year |-> year - 1, month |-> 12, day |-> 31]
      ELSE [year |-> year, month |-> month, day |-> r1 - before + 1]

\* int(parts[6].ljust(6, '0')[:6]) if parts[6] else 0
Microsecond(frac) ==
  IF Len(frac) = 0 THEN 0
  ELSE Int_([k \in 1..6 |-> IF k <= Len(frac) THEN frac[k] ELSE "0"])

\* timedelta with the minutes and the seconds exchanged
timedelta_seconds_exchanged(hours, minutes, seconds) ==
  hours * 3600 + seconds * 60 + minutes

\* the whole seconds of timedelta(hours=, minutes=, seconds=, microseconds=):
\* the microseconds, under a million, carry nothing
timedelta_seconds(hours, minutes, seconds) ==
  hours * 3600 + minutes * 60 + seconds

\* The moment base_date + timedelta(hours, minutes, seconds, microseconds);
\* None (ok = FALSE) when datetime() raises ValueError or the sum OverflowError.
\* timestamp_str is a match of the pattern, which pattern.match finds again.
_fix_malformed_timestamp(timestamp_str) ==
  LET t == TimeStart(timestamp_str, 1)
      year == Int_(SubSeq(timestamp_str, 1, 4))
      month == Int_(SubSeq(timestamp_str, 6, 7))
      day == Int_(SubSeq(timestamp_str, 9, 10))
      hour == Int_(SubSeq(timestamp_str, t, t + 1))
      minute == Int_(SubSeq(timestamp_str, t + 3, t + 4))
      second == Int_(SubSeq(timestamp_str, t + 6, t + 7))
      frac == IF IsCharAt(timestamp_str, t + 8, ".")
              THEN SubSeq(timestamp_str, t + 9, SkipDigits(timestamp_str, t + 9) - 1)
              ELSE <<>>
      microsecond == Microsecond(frac)
      total == timedelta_seconds(hour, minute, second)
      ordinal == ToOrdinal(year, month, day) + (total \div 86400)
      rest == total % 86400
      none == [ok |-> FALSE, year |-> 0, month |-> 0, day |-> 0, hour |-> 0,
               minute |-> 0, second |-> 0, microsecond |-> 0]
  IN  IF DatetimeMatchEnd(timestamp_str, 1) = 0 THEN none
      ELSE IF ~ValidDate(year, month, day) THEN none
      ELSE IF ordinal > MaxOrdinal THEN none
      ELSE [ok |-> TRUE,
            year |-> FromOrdinal(ordinal).year,
            month |-> FromOrdinal(ordinal).month,
            day |-> FromOrdinal(ordinal).day,
            hour |-> rest \div 3600,
            minute |-> (rest % 3600) \div 60,
            second |-> rest % 60,
            microsecond |-> microsecond]

\* the candidate chosen and the moment made of it
_parse_and_clean_datetime(text) ==
  LET latest == _extract_latest_datetime_str(text)
  IN  IF ~latest.ok
      THEN [ok |-> FALSE, candidate |-> <<>>,
            dt |-> _fix_malformed_timestamp(<<>>)]
      ELSE [ok |-> _fix_malformed_timestamp(latest.str).ok,
            candidate |-> latest.str,
            dt |-> _fix_malformed_timestamp(latest.str)]

\* str(n) for n >= 0
RECURSIVE IntToStr(_)
IntToStr(n) ==
  IF n < 10 THEN <<DigitSeq[n + 1]>>
  ELSE Append(IntToStr(n \div 10), DigitSeq[(n % 10) + 1])

\* n in at least width digits, padded with zeros on the left
RECURSIVE ZeroPad(_, _)
ZeroPad(s, width) == IF Len(s) >= width THEN s ELSE ZeroPad(<<"0">> \o s, width)

\* dt.strftime('%Y-%m-%d %H:%M:%S').  %Y of the C library: four digits where
\* it pads the year with zeros (pad_year), the bare number where it does not;
\* the two differ only for a year under 1000.
strftime(dt, pad_year) ==
  (IF pad_year THEN ZeroPad(IntToStr(dt.year), 4) ELSE IntToStr(dt.year))
  \o <<"-">> \o ZeroPad(IntToStr(dt.month), 2)
  \o <<"-">> \o ZeroPad(IntToStr(dt.day), 2)
  \o <<" ">> \o ZeroPad(IntToStr(dt.hour), 2)
  \o <<":">> \o ZeroPad(IntToStr(dt.minute), 2)
  \o <<":">> \o ZeroPad(IntToStr(dt.second), 2)

(***************************************************************************)
(* Field helpers                                                           *)
(***************************************************************************)
\* re.sub(r'\D', '', s)
IsDigitChar(c) == c \in Digits
OnlyDigits(s) == SelectSeq(s, IsDigitChar)

NoNumericId == "no numeric id"
DuplicateId == "duplicate id"

\* _process_id without the look into seen_ids
_process_id_unchecked(id_field, seen_ids) ==
  LET id_str == OnlyDigits(id_field)
  IN  IF Len(id_str) = 0 THEN [ok |-> FALSE, id |-> 0, reason |-> NoNumericId]
      ELSE [ok |-> TRUE, id |-> Int_(id_str), reason |-> ""]

_process_id(id_field, seen_ids) ==
  LET id_str == OnlyDigits(id_field)
  IN  IF Len(id_str) = 0 THEN [ok |-> FALSE, id |-> 0, reason |-> NoNumericId]
      ELSE IF Int_(id_str) \in seen_ids
           THEN [ok |-> FALSE, id |-> Int_(id_str), reason |-> DuplicateId]
           ELSE [ok |-> TRUE, id |-> Int_(id_str), reason |-> ""]

enabled == <<"e", "n", "a", "b", "l", "e", "d">>
deleted == <<"d", "e", "l", "e", "t", "e", "d">>

_extract_status(fields) ==
  LET hits == {k \in 1..Len(fields) :
                 Strip(Lower(fields[k])) \in {enabled, deleted}}
  IN  IF hits = {} THEN enabled ELSE Strip(Lower(fields[SetMin(hits)]))

\* re.match(r'^[A-Z0-9]{4,30}$', s), s stripped (so it ends with no newline)
IsCode(s) ==
  /\ Len(s) >= 4 /\ Len(s) <= 30
  /\ \A k \in 1..Len(s) : s[k] \in Upper \cup Digits

DuplicateCode == "duplicate code"
NoCode == "no code"

\* _find_device_code without the look into seen_codes
_find_device_code_unchecked(fields, seen_codes) ==
  LET hits == {idx \in 0..Len(fields) - 1 : IsCode(Strip(fields[idx + 1]))}
  IN  IF hits = {}
      THEN [ok |-> FALSE, code |-> <<>>, idx |-> 0, reason |-> NoCode]
      ELSE [ok |-> TRUE, code |-> Strip(fields[SetMin(hits) + 1]),
            idx |-> SetMin(hits), reason |-> ""]

\* idx counts the fields from 0, as the code does
_find_device_code(fields, seen_codes) ==
  LET hits == {idx \in 0..Len(fields) - 1 : IsCode(Strip(fields[idx + 1]))}
      idx == SetMin(hits)
      cleaned_field == Strip(fields[idx + 1])
  IN  IF hits = {}
      THEN [ok |-> FALSE, code |-> <<>>, idx |-> 0, reason |-> NoCode]
      ELSE IF cleaned_field \in seen_codes
           THEN [ok |-> FALSE, code |-> cleaned_field, idx |-> idx,
                 reason |-> DuplicateCode]
           ELSE [ok |-> TRUE, code |-> cleaned_field, idx |-> idx, reason |-> ""]

Machine == <<"M", "a", "c", "h", "i", "n", "e", " ">>

\* fields[2:code_index], each part stripped and unquoted, joined by a space
_extract_name_and_description(fields, code_index, device_id) ==
  LET device_name ==
        IF Len(fields) > 1 THEN StripChars(Strip(fields[2]), {DQ})
        ELSE Machine \o IntToStr(device_id)
      description_parts ==
        IF code_index > 2 THEN SubSeq(fields, 3, code_index) ELSE <<>>
      cleaned_parts ==
        [k \in 1..Len(description_parts) |->
           StripChars(Strip(description_parts[k]), {DQ})]
  IN  [name |-> device_name, description |-> Join(cleaned_parts, <<" ">>)]

\* value[:max_len + 1]
_truncate_field_one_more(value, max_len) ==
  IF Len(value) > max_len THEN SubSeq(value, 1, max_len + 1) ELSE value

_truncate_field(value, max_len) ==
  IF Len(value) > max_len THEN SubSeq(value, 1, max_len) ELSE value

\* str.isdigit(): not empty, every character a digit (the superscript counts)
IsDigitStr(s) == Len(s) > 0 /\ \A k \in 1..Len(s) : s[k] \in Digits \cup {SUP2}
\* int(s) succeeds on a text isdigit() accepts only when all are decimal digits
IntAccepts(s) == Len(s) > 0 /\ \A k \in 1..Len(s) : s[k] \in Digits

NoDeviceId == "no device id"

\* for idx in range(len(fields) - 3, 0, -1): the first field that isdigit();
\* raised when int() rejects it (ValueError)
RECURSIVE ScanDeviceId(_, _)
ScanDeviceId(fields, idx) ==
  IF idx <= 0
  THEN [ok |-> FALSE, raised |-> FALSE, id |-> 0, idx |-> 0,
        reason |-> NoDeviceId]
  ELSE IF IsDigitStr(Strip(fields[idx + 1]))
       THEN IF IntAccepts(Strip(fields[idx + 1]))
            THEN [ok |-> TRUE, raised |-> FALSE,
                  id |-> Int_(Strip(fields[idx + 1])), idx |-> idx, reason |-> ""]
            ELSE [ok |-> FALSE, raised |-> TRUE, id |-> 0, idx |-> idx,
                  reason |-> "ValueError"]
       ELSE ScanDeviceId(fields, idx - 1)

\* range(len(fields) - 4, 0, -1)
_find_content_device_id_from_fourth(fields) ==
  ScanDeviceId(fields, Len(fields) - 4)

_find_content_device_id(fields) == ScanDeviceId(fields, Len(fields) - 3)

(***************************************************************************)
(* The two pipelines: clean_device_data and clean_content_data             *)
(***************************************************************************)
VARIABLES
  family,               \* "device": clean_device_data, "content": clean_content_data
  raw_data,             \* the text given
  delimiter,            \* the delimiter given
  lines,                \* raw_data.strip().split('\n')
  total_rows,
  i,                    \* the number of the line in hand, from 1 (0: none yet)
  stage,                \* where the run is with the line in hand
  fields,
  device_id,            \* the row's own id (content_id in clean_content_data)
  latest_dt_obj,        \* what _parse_and_clean_datetime chose and returned
  latest_datetime_str,
  status,
  code_info,            \* device_code, code_index (device_external_id, device_id_index)
  extracted,            \* what _extract_name_and_description returned
  final_row,
  cleaned_rows,
  seen_ids,
  seen_codes,
  discarded_rows,
  row_lines,            \* the line number of each record of cleaned_rows
  trail                 \* how each line so far ended, and the reason logged

vars == <<family, raw_data, delimiter, lines, total_rows, i, stage, fields,
          device_id, latest_dt_obj, latest_datetime_str, status, code_info,
          extracted, final_row, cleaned_rows, seen_ids, seen_codes,
          discarded_rows, row_lines, trail>>

row_locals == <<fields, device_id, latest_dt_obj, latest_datetime_str, status,
                code_info, extracted, final_row>>
batch_state == <<cleaned_rows, seen_ids, seen_codes, row_lines>>
run_inputs == <<family, raw_data, delimiter, lines, total_rows>>

EmptyLine == "empty line"
EmptyAfterProcessing == "empty after processing"
NoDatetime == "no valid datetime"

\* the maximum lengths given to _truncate_field
DeviceNameMax == 32
ContentNameMax == 100
DescriptionMax == 128

NameMax(fam) == IF fam = "device" THEN DeviceNameMax ELSE ContentNameMax

NoDt == _parse_and_clean_datetime(<<>>)
NoCodeInfo == [key |-> <<>>, idx |-> 0]
NoNames == [name |-> <<>>, description |-> <<>>]
NoRow == [id |-> 0]

\* lines 214-221, 297-303
Begin ==
  /\ stage = "Start"
  /\ lines' = Split(Strip(raw_data), NL)
  /\ total_rows' = Len(lines')
  /\ stage' = "Begun"
  /\ UNCHANGED <<family, raw_data, delimiter, i, row_locals, batch_state,
                 discarded_rows, trail>>

\* for i, line in enumerate(lines, 1)
FetchLine ==
  /\ stage \in {"Begun", "Accepted", "Discarded"}
  /\ i < total_rows
  /\ i' = i + 1
  /\ stage' = "Pending"
  /\ UNCHANGED <<run_inputs, row_locals, batch_state, discarded_rows, trail>>

\* discarded_rows += 1; continue
Discard(id, reason) ==
  /\ discarded_rows' = discarded_rows + 1
  /\ trail' = Append(trail, [line |-> i, id |-> id, end |-> "Discarded",
                             reason |-> reason])
  /\ stage' = "Discarded"

\* lines 224-227, 306-308
SkipEmptyLine ==
  /\ stage = "Pending"
  /\ Len(Strip(lines[i])) = 0
  /\ Discard(-1, EmptyLine)
  /\ UNCHANGED <<run_inputs, i, row_locals, batch_state>>

\* ProcessId with the datetime looked for before the id
ProcessId_datetime_first ==
  /\ stage = "Pending"
  /\ Len(Strip(lines[i])) > 0
  /\ fields' = _preprocess_and_split_line(lines[i], delimiter)
  /\ IF ~_parse_and_clean_datetime(lines[i]).ok
     THEN /\ Discard(-1, NoDatetime)
          /\ UNCHANGED device_id
     ELSE IF Len(fields') = 0 \/ Len(fields'[1]) = 0
     THEN /\ Discard(-1, EmptyAfterProcessing)
          /\ UNCHANGED device_id
     ELSE LET r == _process_id(fields'[1], seen_ids)
          IN  IF r.ok
              THEN /\ device_id' = r.id
                   /\ stage' = "IdOk"
                   /\ UNCHANGED <<discarded_rows, trail>>
              ELSE /\ Discard(IF r.reason = DuplicateId THEN r.id ELSE -1,
                              r.reason)
                   /\ UNCHANGED device_id
  /\ UNCHANGED <<run_inputs, i, latest_dt_obj, latest_datetime_str, status,
                 code_info, extracted, final_row, batch_state>>

\* ProcessId with seen_ids.add as soon as the id is validated
ProcessId_adding_id ==
  /\ stage = "Pending"
  /\ Len(Strip(lines[i])) > 0
  /\ fields' = _preprocess_and_split_line(lines[i], delimiter)
  /\ IF Len(fields') = 0 \/ Len(fields'[1]) = 0
     THEN /\ Discard(-1, EmptyAfterProcessing)
          /\ UNCHANGED <<device_id, seen_ids>>
     ELSE LET r == _process_id(fields'[1], seen_ids)
          IN  IF r.ok
              THEN /\ device_id' = r.id
                   /\ seen_ids' = seen_ids \cup {r.id}
                   /\ stage' = "IdOk"
                   /\ UNCHANGED <<discarded_rows, trail>>
              ELSE /\ Discard(IF r.reason = DuplicateId THEN r.id ELSE -1,
                              r.reason)
                   /\ UNCHANGED <<device_id, seen_ids>>
  /\ UNCHANGED <<run_inputs, i, latest_dt_obj, latest_datetime_str, status,
                 code_info, extracted, final_row, cleaned_rows, seen_codes,
                 row_lines>>

\* lines 229-241, 310-320: normalize, then validate the id
ProcessId ==
  /\ stage = "Pending"
  /\ Len(Strip(lines[i])) > 0
  /\ fields' = _preprocess_and_split_line(lines[i], delimiter)
  /\ IF Len(fields') = 0 \/ Len(fields'[1]) = 0
     THEN /\ Discard(-1, EmptyAfterProcessing)
          /\ UNCHANGED device_id
     ELSE LET r == _process_id(fields'[1], seen_ids)
          IN  IF r.ok
              THEN /\ device_id' = r.id
                   /\ stage' = "IdOk"
                   /\ UNCHANGED <<discarded_rows, trail>>
              ELSE /\ Discard(IF r.reason = DuplicateId THEN r.id ELSE -1,
                              r.reason)
                   /\ UNCHANGED device_id
  /\ UNCHANGED <<run_inputs, i, latest_dt_obj, latest_datetime_str, status,
                 code_info, extracted, final_row, batch_state>>

\* lines 243-250, 322-327
ProcessDatetime ==
  /\ stage = "IdOk"
  /\ latest_dt_obj' = _parse_and_clean_datetime(lines[i])
  /\ IF latest_dt_obj'.ok
     THEN /\ \E pad_year \in {TRUE, FALSE} :
               latest_datetime_str' = strftime(latest_dt_obj'.dt, pad_year)
          /\ stage' = "TimestampOk"
          /\ UNCHANGED <<discarded_rows, trail>>
     ELSE /\ Discard(device_id, NoDatetime)
          /\ UNCHANGED latest_datetime_str
  /\ UNCHANGED <<run_inputs, i, fields, device_id, status, code_info,
                 extracted, final_row, batch_state>>

\* lines 252-253, 329-330
ExtractStatus ==
  /\ stage = "TimestampOk"
  /\ status' = _extract_status(fields)
  /\ stage' = "StatusOk"
  /\ UNCHANGED <<run_inputs, i, fields, device_id, latest_dt_obj,
                 latest_datetime_str, code_info, extracted, final_row,
                 batch_state, discarded_rows, trail>>

\* lines 255-260
FindDeviceCode ==
  /\ stage = "StatusOk"
  /\ family = "device"
  /\ LET r == _find_device_code(fields, seen_codes)
     IN  IF r.ok
         THEN /\ code_info' = [key |-> r.code, idx |-> r.idx]
              /\ stage' = "KeyOk"
              /\ UNCHANGED <<discarded_rows, trail>>
         ELSE /\ Discard(device_id, r.reason)
              /\ UNCHANGED code_info
  /\ UNCHANGED <<run_inputs, i, fields, device_id, latest_dt_obj,
                 latest_datetime_str, status, extracted, final_row, batch_state>>

\* lines 332-337; a ValueError of int() leaves clean_content_data
FindContentDeviceId ==
  /\ stage = "StatusOk"
  /\ family = "content"
  /\ LET r == _find_content_device_id(fields)
     IN  IF r.ok
         THEN /\ code_info' = [key |-> r.id, idx |-> r.idx]
              /\ stage' = "KeyOk"
              /\ UNCHANGED <<discarded_rows, trail>>
         ELSE IF r.raised
         THEN /\ stage' = "Raised"
              /\ UNCHANGED <<code_info, discarded_rows, trail>>
         ELSE /\ Discard(device_id, r.reason)
              /\ UNCHANGED code_info
  /\ UNCHANGED <<run_inputs, i, fields, device_id, latest_dt_obj,
                 latest_datetime_str, status, extracted, final_row, batch_state>>

\* lines 262-277, 339-354: extract name and description, truncate, assemble
AssembleRow ==
  /\ stage = "KeyOk"
  /\ extracted' = _extract_name_and_description(fields, code_info.idx, device_id)
  /\ LET name == _truncate_field(extracted'.name, NameMax(family))
         description == _truncate_field(extracted'.description, DescriptionMax)
     IN  final_row' =
           IF family = "device"
           THEN [id |-> device_id, name |-> name, description |-> description,
                 code |-> code_info.key,
                 expire_date |-> latest_datetime_str, state |-> status]
           ELSE [id |-> device_id, name |-> name, description |-> description,
                 device_external_id |-> code_info.key,
                 expire_date |-> latest_datetime_str, state |-> status]
  /\ stage' = "Assembled"
  /\ UNCHANGED <<run_inputs, i, fields, device_id, latest_dt_obj,
                 latest_datetime_str, status, code_info, batch_state,
                 discarded_rows, trail>>

\* AcceptRow without seen_ids.add
AcceptRow_without_seen_id ==
  /\ stage = "Assembled"
  /\ cleaned_rows' = Append(cleaned_rows, final_row)
  /\ row_lines' = Append(row_lines, i)
  /\ seen_codes' = IF family = "device" THEN seen_codes \cup {code_info.key}
                   ELSE seen_codes
  /\ trail' = Append(trail, [line |-> i, id |-> device_id, end |-> "Accepted",
                             reason |-> ""])
  /\ stage' = "Accepted"
  /\ UNCHANGED <<run_inputs, i, row_locals, discarded_rows, seen_ids>>

\* AcceptRow with cleaned_rows.insert(0, final_row)
AcceptRow_at_front ==
  /\ stage = "Assembled"
  /\ cleaned_rows' = <<final_row>> \o cleaned_rows
  /\ row_lines' = <<i>> \o row_lines
  /\ seen_ids' = seen_ids \cup {device_id}
  /\ seen_codes' = IF family = "device" THEN seen_codes \cup {code_info.key}
                   ELSE seen_codes
  /\ trail' = Append(trail, [line |-> i, id |-> device_id, end |-> "Accepted",
                             reason |-> ""])
  /\ stage' = "Accepted"
  /\ UNCHANGED <<run_inputs, i, row_locals, discarded_rows>>

\* lines 279-282, 356-358
AcceptRow ==
  /\ stage = "Assembled"
  /\ cleaned_rows' = Append(cleaned_rows, final_row)
  /\ row_lines' = Append(row_lines, i)
  /\ seen_ids' = seen_ids \cup {device_id}
  /\ seen_codes' = IF family = "device" THEN seen_codes \cup {code_info.key}
                   ELSE seen_codes
  /\ trail' = Append(trail, [line |-> i, id |-> device_id, end |-> "Accepted",
                             reason |-> ""])
  /\ stage' = "Accepted"
  /\ UNCHANGED <<run_inputs, i, row_locals, discarded_rows>>

\* lines 284-289, 360-363: return cleaned_rows
Finish ==
  /\ stage \in {"Begun", "Accepted", "Discarded"}
  /\ i = total_rows
  /\ stage' = "Done"
  /\ UNCHANGED <<run_inputs, i, row_locals, batch_state, discarded_rows, trail>>

(***************************************************************************)
(* The inputs                                                              *)
(***************************************************************************)
Text(c, n) == [k \in 1..n |-> c]

\* the device line of the specification's end-to-end example
ExampleLine ==
  <<"1", ",", DQ, "P", "r", "i", "n", "t", "e", "r", " ", "A", DQ, ",", DQ,
  "L", "o", "b", "b", "y", " ", "u", "n", "i", "t", DQ, ",", "P", "R", "T",
  "1", "2", "3", "4", ",", "2", "0", "2", "4", "-", "0", "3", "-", "0", "1",
  " ", "1", "0", ":", "0", "0", ":", "0", "0", ",", "e", "n", "a", "b", "l",
  "e", "d">>

\* seconds out of range
RolloverLine ==
  <<"2", ",", DQ, "S", "c", "a", "n", "n", "e", "r", DQ, ",", DQ, "D", "e",
  "s", "k", DQ, ",", "S", "C", "N", "5", "6", "7", "8", ",", "2", "0", "2",
  "4", "-", "0", "1", "-", "0", "1", " ", "2", "3", ":", "5", "9", ":", "6",
  "6", ",", "d", "e", "l", "e", "t", "e", "d">>

\* the code of ExampleLine under another id
DupCodeLine ==
  <<"3", ",", DQ, "O", "t", "h", "e", "r", DQ, ",", DQ, "y", DQ, ",", "P",
  "R", "T", "1", "2", "3", "4", ",", "2", "0", "2", "4", "-", "0", "3", "-",
  "0", "2", " ", "1", "1", ":", "0", "0", ":", "0", "0", ",", "e", "n", "a",
  "b", "l", "e", "d">>

\* the id of ExampleLine and no datetime
NoTimestampLine ==
  <<"1", ",", DQ, "E", "a", "r", "l", "y", DQ, ",", DQ, "z", DQ, ",", "N",
  "T", "S", "0", "0", "0", "1", ",", "e", "n", "a", "b", "l", "e", "d">>

\* the code of ExampleLine and no datetime
NoTimestampDupCodeLine ==
  <<"6", ",", DQ, "L", "a", "t", "e", DQ, ",", DQ, "w", DQ, ",", "P", "R", "T",
    "1", "2", "3", "4", ",", "e", "n", "a", "b", "l", "e", "d">>

\* whitespace only
BlankLine ==
  <<" ", " ">>

\* nothing before the first delimiter
NoFirstFieldLine ==
  <<",", DQ, "x", DQ, ",", "2", "0", "2", "4", "-", "0", "3", "-", "0", "1",
  " ", "1", "0", ":", "0", "0", ":", "0", "0">>

\* no digit in the first field
NoIdLine ==
  <<"a", "b", "c", ",", DQ, "n", DQ, ",", DQ, "d", DQ, ",", "C", "O", "D",
  "E", "9", ",", "2", "0", "2", "4", "-", "0", "3", "-", "0", "1", " ", "1",
  "0", ":", "0", "0", ":", "0", "0", ",", "e", "n", "a", "b", "l", "e",
  "d">>

\* the line of the specification's delimiter-repair example
RepairLine ==
  <<"1", DQ, DQ, "N", "A", "M", "E", DQ, DQ, "N", "O", "T", "E", DQ, ",",
  "C", "O", "D", "E", "1", "2", "3", "4", ",", "2", "0", "2", "4", "-", "0",
  "3", "-", "0", "1", " ", "1", "0", ":", "0", "0", ":", "0", "0", ",", "e",
  "n", "a", "b", "l", "e", "d">>

\* ExampleLine with an id of four digits
LongIdLine ==
  <<"1", "2", "3", "4", ",", DQ, "P", "r", "i", "n", "t", "e", "r", " ",
  "A", DQ, ",", DQ, "L", "o", "b", "b", "y", " ", "u", "n", "i", "t", DQ,
  ",", "P", "R", "T", "1", "2", "3", "4", ",", "2", "0", "2", "4", "-", "0",
  "3", "-", "0", "1", " ", "1", "0", ":", "0", "0", ":", "0", "0", ",", "e",
  "n", "a", "b", "l", "e", "d">>

\* a name that ends with a digit
TrailingDigitLine ==
  <<"4", ",", DQ, "P", "r", "i", "n", "t", "e", "r", " ", "1", DQ, ",", DQ,
  "L", "o", "b", "b", "y", " ", "u", "n", "i", "t", DQ, ",", "P", "R", "T",
  "0", "0", "0", "4", ",", "2", "0", "2", "4", "-", "0", "3", "-", "0", "1",
  " ", "1", "0", ":", "0", "0", ":", "0", "0", ",", "e", "n", "a", "b", "l",
  "e", "d">>

\* a content line: the device reference three from last
ContentLine ==
  <<"1", "0", ",", DQ, "V", "i", "d", "e", "o", DQ, ",", DQ, "P", "r", "o",
  "m", "o", " ", "c", "l", "i", "p", DQ, ",", "1", ",", "2", "0", "2", "4",
  "-", "0", "3", "-", "0", "1", " ", "1", "0", ":", "0", "0", ":", "0", "0",
  ",", "e", "n", "a", "b", "l", "e", "d">>

\* three fields: the field three from last is the id
ShortContentLine ==
  <<"1", "2", ",", "2", "0", "2", "4", "-", "0", "3", "-", "0", "1", " ",
  "1", "0", ":", "0", "0", ":", "0", "0", ",", "e", "n", "a", "b", "l", "e",
  "d">>

\* a device reference that isdigit() accepts and int() rejects
SuperscriptLine ==
  <<"1", "3", ",", DQ, "C", "l", "i", "p", DQ, ",", DQ, "d", DQ, ",", SUP2,
  ",", "2", "0", "2", "4", "-", "0", "3", "-", "0", "1", " ", "1", "0", ":",
  "0", "0", ":", "0", "0", ",", "e", "n", "a", "b", "l", "e", "d">>

\* name and description longer than every maximum, a code and a device
\* reference: accepted by both pipelines
LongTextLine ==
  <<"5", ",", DQ>> \o Text("n", 110) \o <<DQ, ",", DQ>> \o Text("d", 200)
  \o <<DQ, ",", "L", "O", "N", "G", "0", "0", "0", "5", ",", "7", ",">>
  \o <<"2", "0", "2", "4", "-", "0", "3", "-", "0", "1", " ",
       "1", "0", ":", "0", "0", ":", "0", "0", ",">> \o enabled

Pool ==
  {ExampleLine, RolloverLine, DupCodeLine, NoTimestampLine, BlankLine,
   NoFirstFieldLine, NoIdLine, RepairLine, LongIdLine, TrailingDigitLine,
   ContentLine, ShortContentLine, SuperscriptLine, LongTextLine,
   NoTimestampDupCodeLine}

\* the most lines of a batch drawn from Pool
MaxLines == 2

RECURSIVE Batches(_)
Batches(n) ==
  IF n = 0 THEN {<<>>}
  ELSE Batches(n - 1) \cup
       {Append(b, l) : b \in {c \in Batches(n - 1) : Len(c) = n - 1}, l \in Pool}

\* one line with one datetime: every date with every time
Dates ==
  {<<2024, 1, 1>>, <<2024, 2, 28>>, <<2023, 2, 28>>, <<2100, 2, 28>>,
   <<2024, 12, 31>>, <<2024, 2, 30>>, <<999, 12, 31>>, <<9999, 12, 31>>}
Hours == {0, 23, 24, 99}
Minutes == {0, 59, 99}
Seconds == {0, 59, 66, 99}

Pad(n, width) == ZeroPad(IntToStr(n), width)

DatetimeText(d, h, m, sec) ==
  Pad(d[1], 4) \o <<"-">> \o Pad(d[2], 2) \o <<"-">> \o Pad(d[3], 2) \o <<" ">>
  \o Pad(h, 2) \o <<":">> \o Pad(m, 2) \o <<":">> \o Pad(sec, 2)

DatetimeLine(d, h, m, sec) ==
  <<"7", ",", DQ, "T", DQ, ",", DQ, "r", DQ, ",",
    "T", "I", "M", "E", "0", "0", "0", "7", ",", "9", ",">>
  \o DatetimeText(d, h, m, sec) \o <<",">> \o enabled

DatetimeLines ==
  {DatetimeLine(d, h, m, sec) :
     d \in Dates, h \in Hours, m \in Minutes, sec \in Seconds}

\* one line with two datetimes of one format, in either order
Stamps ==
  {DatetimeText(<<2024, 1, 1>>, 0, 0, 0), DatetimeText(<<2024, 1, 1>>, 23, 0, 0),
   DatetimeText(<<2024, 1, 1>>, 99, 0, 0), DatetimeText(<<2024, 1, 2>>, 0, 0, 0),
   DatetimeText(<<2023, 12, 31>>, 23, 59, 66),
   DatetimeText(<<2024, 2, 30>>, 0, 0, 0)}

TwoDatetimeLine(a, b) ==
  <<"7", ",", DQ, "T", DQ, ",", DQ, "r", DQ, ",",
    "T", "I", "M", "E", "0", "0", "0", "7", ",", "9", ",">>
  \o a \o <<",">> \o b \o <<",">> \o enabled

TwoDatetimeLines == {TwoDatetimeLine(a, b) : a \in Stamps, b \in Stamps}

\* content lines: description fields, then the device reference, then the
\* two trailing fields
DescriptionFields ==
  {<<DQ, "d", DQ>>, <<"7", "7">>, <<" ", "x", " ">>}
References == {<<"5">>, <<"0", "4", "2">>, <<"r", "5">>, <<SUP2>>}

\* the most description fields of such a line
MaxDescriptions == 2

RECURSIVE FieldLists(_)
FieldLists(n) ==
  IF n = 0 THEN {<<>>}
  ELSE FieldLists(n - 1) \cup
       {Append(b, f) : b \in {c \in FieldLists(n - 1) : Len(c) = n - 1},
                       f \in DescriptionFields}

ReferenceLine(descriptions, reference) ==
  Join(<<<<"2", "0">>, <<DQ, "C", "l", "i", "p", DQ>>>> \o descriptions
       \o <<reference,
            <<"2", "0", "2", "4", "-", "0", "3", "-", "0", "1", " ",
              "1", "0", ":", "0", "0", ":", "0", "0">>,
            enabled>>,
       <<",">>)

ReferenceLines ==
  {ReferenceLine(ds, r) : ds \in FieldLists(MaxDescriptions), r \in References}

Inputs ==
  {Join(b, <<NL>>) : b \in Batches(MaxLines)}
  \cup DatetimeLines \cup TwoDatetimeLines \cup ReferenceLines

Init ==
  /\ family \in {"device", "content"}
  /\ raw_data \in Inputs
  /\ delimiter = ","
  /\ lines = <<>>
  /\ total_rows = 0
  /\ i = 0
  /\ stage = "Start"
  /\ fields = <<>>
  /\ device_id = 0
  /\ latest_dt_obj = NoDt
  /\ latest_datetime_str = <<>>
  /\ status = <<>>
  /\ code_info = NoCodeInfo
  /\ extracted = NoNames
  /\ final_row = NoRow
  /\ cleaned_rows = <<>>
  /\ seen_ids = {}
  /\ seen_codes = {}
  /\ discarded_rows = 0
  /\ row_lines = <<>>
  /\ trail = <<>>

Next ==
  \/ Begin
  \/ FetchLine
  \/ SkipEmptyLine
  \/ ProcessId
  \/ ProcessDatetime
  \/ ExtractStatus
  \/ FindDeviceCode
  \/ FindContentDeviceId
  \/ AssembleRow
  \/ AcceptRow
  \/ Finish

Spec == Init /\ [][Next]_vars

(***************************************************************************)
(* The claims                                                              *)
(***************************************************************************)
Last(s) == s[Len(s)]

\* the line in hand has been normalized and its id accepted
PastId == stage \in {"IdOk", "TimestampOk", "StatusOk", "KeyOk", "Assembled",
                     "Accepted"}
\* the datetime of the line in hand has been chosen and formatted
PastDatetime == stage \in {"TimestampOk", "StatusOk", "KeyOk", "Assembled",
                           "Accepted"}

\* [A-Z0-9]{4,30}, spelled out
CodeShape(s) ==
  /\ Len(s) \in 4..30
  /\ \A k \in 1..Len(s) :
       s[k] \in {"A", "B", "C", "D", "E", "F", "G", "H", "I", "J", "K", "L",
                 "M", "N", "O", "P", "Q", "R", "S", "T", "U", "V", "W", "X",
                 "Y", "Z", "0", "1", "2", "3", "4", "5", "6", "7", "8", "9"}

AllDigits(s) == Len(s) > 0 /\ \A k \in 1..Len(s) : s[k] \in Digits

\* a text "..." in quotes, with no quote inside
Quoted(s) ==
  /\ Len(s) >= 2 /\ s[1] = DQ /\ s[Len(s)] = DQ
  /\ \A k \in 2..Len(s) - 1 : s[k] # DQ
Inner(s) == SubSeq(s, 2, Len(s) - 1)

\* YYYY-MM-DD HH:MM:SS, every part in range
InRangeTimestamp(s) ==
  /\ Len(s) = 19
  /\ \A k \in 1..19 :
       IF k \in {5, 8} THEN s[k] = "-"
       ELSE IF k = 11 THEN s[k] = " "
       ELSE IF k \in {14, 17} THEN s[k] = ":"
       ELSE s[k] \in Digits
  /\ ValidDate(Int_(SubSeq(s, 1, 4)), Int_(SubSeq(s, 6, 7)), Int_(SubSeq(s, 9, 10)))
  /\ Int_(SubSeq(s, 12, 13)) <= 23
  /\ Int_(SubSeq(s, 15, 16)) <= 59
  /\ Int_(SubSeq(s, 18, 19)) <= 59

\* <id>,"<name>","<description>",<CODE>,<YYYY-MM-DD HH:MM:SS>,<state>
WellFormedDeviceLine(line) ==
  LET p == Split(line, ",")
  IN  /\ Len(p) = 6
      /\ AllDigits(p[1])
      /\ Quoted(p[2]) /\ Len(Inner(p[2])) <= 32
      /\ Quoted(p[3]) /\ Len(Inner(p[3])) <= 128
      /\ CodeShape(p[4])
      /\ InRangeTimestamp(p[5])
      /\ p[6] \in {enabled, deleted}

\* the id and the code of a well-formed line occur in no earlier line
NotSeenEarlier(line) ==
  LET p == Split(line, ",")
  IN  \A k \in 1..i - 1 :
        LET q == Split(lines[k], ",")
        IN  /\ ~(AllDigits(q[1]) /\ Int_(q[1]) = Int_(p[1]))
            /\ \A j \in 1..Len(q) : q[j] # p[4]

\* C1: clean_device_data accepts every well-formed device line whose id and
\* code are new in the batch, and the record it emits holds exactly the six
\* values of the line.
C1_DeviceEndToEnd ==
  (/\ family = "device"
   /\ stage \in {"Accepted", "Discarded"}
   /\ WellFormedDeviceLine(lines[i])
   /\ NotSeenEarlier(lines[i]))
  => LET p == Split(lines[i], ",")
     IN  /\ stage = "Accepted"
         /\ Last(cleaned_rows) =
              [id |-> Int_(p[1]), name |-> Inner(p[2]),
               description |-> Inner(p[3]), code |-> p[4],
               expire_date |-> p[5], state |-> p[6]]

\* C2: at every point of a run of either pipeline the ids of the records
\* accepted so far are pairwise distinct.
C2_IdUniqueness ==
  \A a, b \in 1..Len(cleaned_rows) :
    a # b => cleaned_rows[a].id # cleaned_rows[b].id

\* a line with the id of an accepted record has been offered and rejected
C2_Witness ==
  /\ stage = "Discarded"
  /\ Last(trail).reason = DuplicateId
  /\ \E a \in 1..Len(cleaned_rows) : cleaned_rows[a].id = Last(trail).id

\* C3: at every point of a run of clean_device_data the codes of the records
\* accepted so far are pairwise distinct and each matches [A-Z0-9]{4,30}.
C3_CodeUniqueness ==
  family = "device" =>
    /\ \A a, b \in 1..Len(cleaned_rows) :
         a # b => cleaned_rows[a].code # cleaned_rows[b].code
    /\ \A a \in 1..Len(cleaned_rows) : CodeShape(cleaned_rows[a].code)

\* a line with the code of an accepted record has been offered and rejected
C3_Witness ==
  /\ family = "device"
  /\ stage = "Discarded"
  /\ Last(trail).reason = DuplicateCode
  /\ \E a \in 1..Len(cleaned_rows) :
       /\ cleaned_rows[a].code \in seen_codes
       /\ cleaned_rows[a].id # Last(trail).id

\* two lines, the first earlier, with the same leading numeric id
SameIdLines(a, b) ==
  /\ a < b
  /\ trail[a].id >= 0
  /\ trail[a].id = trail[b].id

\* C4 as stated: of two lines with the same leading numeric id only the
\* earlier is retained, and the later is discarded as a duplicate id,
\* whatever else the two lines contain.
C4_FirstOccurrenceWins ==
  \A a, b \in 1..Len(trail) :
    SameIdLines(a, b) =>
      /\ trail[a].end = "Accepted"
      /\ trail[b].end = "Discarded" /\ trail[b].reason = DuplicateId

\* C4 as amended: of two lines with the same leading numeric id, when the
\* earlier was accepted the later is discarded as a duplicate id and is not
\* in the output.
C4_AcceptedFirstOccurrenceWins ==
  \A a, b \in 1..Len(trail) :
    (SameIdLines(a, b) /\ trail[a].end = "Accepted") =>
      /\ trail[b].end = "Discarded" /\ trail[b].reason = DuplicateId
      /\ \A k \in 1..Len(row_lines) : row_lines[k] # b

C4_Witness ==
  \E a, b \in 1..Len(trail) :
    /\ SameIdLines(a, b) /\ trail[a].end = "Accepted"
    /\ trail[b].end = "Discarded" /\ trail[b].reason = DuplicateId
    /\ stage = "Done"

\* the day after a date
NextDay(d) ==
  IF d.day < DaysInMonth(d.year, d.month)
  THEN [year |-> d.year, month |-> d.month, day |-> d.day + 1]
  ELSE IF d.month < 12
       THEN [year |-> d.year, month |-> d.month + 1, day |-> 1]
       ELSE [year |-> d.year + 1, month |-> 1, day |-> 1]

RECURSIVE AddDays(_, _)
AddDays(d, n) == IF n = 0 THEN d ELSE AddDays(NextDay(d), n - 1)

\* the numbers written in the candidate the pipeline selected
CandidateParts ==
  LET c == latest_dt_obj.candidate
      t == SkipSpace(c, 11)
  IN  [year |-> Int_(SubSeq(c, 1, 4)), month |-> Int_(SubSeq(c, 6, 7)),
       day |-> Int_(SubSeq(c, 9, 10)), hour |-> Int_(SubSeq(c, t, t + 1)),
       minute |-> Int_(SubSeq(c, t + 3, t + 4)),
       second |-> Int_(SubSeq(c, t + 6, t + 7))]

\* the numbers written in a text <year>-<month>-<day> <hour>:<minute>:<second>
StampParts(s) ==
  LET halves == Split(s, " ")
      date == Split(halves[1], "-")
      time == Split(halves[2], ":")
  IN  [year |-> Int_(date[1]), month |-> Int_(date[2]), day |-> Int_(date[3]),
       hour |-> Int_(time[1]), minute |-> Int_(time[2]),
       second |-> Int_(time[3])]

RolloverCandidate ==
  <<"2", "0", "2", "4", "-", "0", "1", "-", "0", "1", " ",
    "2", "3", ":", "5", "9", ":", "6", "6">>
RolloverResult ==
  <<"2", "0", "2", "4", "-", "0", "1", "-", "0", "2", " ",
    "0", "0", ":", "0", "0", ":", "0", "6">>

\* C5: when the selected candidate has a valid calendar date, expire_date is
\* the moment H hours, M minutes and S seconds after midnight of that date,
\* written with hour 0..23 and minute and second 0..59; the candidate
\* 2024-01-01 23:59:66 gives 2024-01-02 00:00:06.
C5_TimestampRollover ==
  (PastDatetime /\ ValidDate(CandidateParts.year, CandidateParts.month,
                             CandidateParts.day)) =>
    LET c == CandidateParts
        out == StampParts(latest_datetime_str)
        elapsed == c.hour * 3600 + c.minute * 60 + c.second
        date == AddDays([year |-> c.year, month |-> c.month, day |-> c.day],
                        elapsed \div 86400)
    IN  /\ out.year = date.year /\ out.month = date.month /\ out.day = date.day
        /\ out.hour \in 0..23 /\ out.minute \in 0..59 /\ out.second \in 0..59
        /\ out.hour * 3600 + out.minute * 60 + out.second = elapsed % 86400
        /\ (latest_dt_obj.candidate = RolloverCandidate
              => latest_datetime_str = RolloverResult)
        /\ (stage = "Accepted"
              => Last(cleaned_rows).expire_date = latest_datetime_str)

\* the record of the line with 23:59:66 has been accepted
C5_Witness ==
  /\ stage = "Accepted"
  /\ latest_dt_obj.candidate = RolloverCandidate
  /\ Last(cleaned_rows).expire_date = RolloverResult

\* value is the first max_len characters of whole, or all of it if shorter
FirstChars(value, whole, max_len) ==
  /\ Len(value) = (IF Len(whole) < max_len THEN Len(whole) ELSE max_len)
  /\ \A k \in 1..Len(value) : value[k] = whole[k]

C6_Lengths ==
  /\ \A a \in 1..Len(cleaned_rows) :
       /\ Len(cleaned_rows[a].name) <= (IF family = "device" THEN 32 ELSE 100)
       /\ Len(cleaned_rows[a].description) <= 128
  /\ stage \in {"Assembled", "Accepted"} =>
       /\ FirstChars(final_row.name, extracted.name,
                     IF family = "device" THEN 32 ELSE 100)
       /\ FirstChars(final_row.description, extracted.description, 128)
  /\ stage = "Accepted" => Last(cleaned_rows) = final_row

\* C6: every accepted record has a name of at most 32 (device) or 100
\* (content) characters and a description of at most 128, each the first
\* characters of the extracted value; and a line whose key was located is
\* assembled and accepted, however long its name and description.
C6_Truncation ==
  /\ []C6_Lengths
  /\ [][/\ stage = "KeyOk" => stage' = "Assembled"
        /\ stage = "Assembled" => stage' = "Accepted"]_vars

\* a description of 200 characters is stored at 128, beside an over-long name
C6_Witness ==
  /\ stage = "Accepted"
  /\ family = "device"
  /\ Len(extracted.description) = 200
  /\ Len(Last(cleaned_rows).description) = 128
  /\ Len(extracted.name) > 32
  /\ Len(Last(cleaned_rows).name) = 32

NAME == <<"N", "A", "M", "E">>
NOTE == <<"N", "O", "T", "E">>

\* C7: the field list of RepairLine holds the id, the name, the note, the
\* code, the timestamp and the state at the indexes 0..5, and the later
\* stages read NAME as the name and NOTE as the description.
C7_DelimiterRepair ==
  (PastId /\ lines[i] = RepairLine) =>
    /\ Len(fields) = 6
    /\ fields[1] = <<"1">>
    /\ StripChars(fields[2], {DQ}) = NAME
    /\ StripChars(fields[3], {DQ}) = NOTE
    /\ fields[4] = <<"C", "O", "D", "E", "1", "2", "3", "4">>
    /\ fields[5] = <<"2", "0", "2", "4", "-", "0", "3", "-", "0", "1", " ",
                   "1", "0", ":", "0", "0", ":", "0", "0">>
    /\ fields[6] = enabled
    /\ (stage \in {"Assembled", "Accepted"}
          => extracted.name = NAME /\ extracted.description = NOTE)

\* the content key locator has run on the fields of the line in hand
LocatorRan ==
  /\ family = "content"
  /\ \/ stage \in {"KeyOk", "Assembled", "Accepted", "Raised"}
     \/ stage = "Discarded" /\ Last(trail).reason = NoDeviceId

LocatorFound == stage \in {"KeyOk", "Assembled", "Accepted"}
LocatorFailed == stage = "Discarded" /\ Last(trail).reason = NoDeviceId

\* the field at index idx (from 0) of fields, trimmed
Trimmed(idx) == Strip(fields[idx + 1])

C8_Locator(least) ==
  LocatorRan =>
    LET n == Len(fields)
    IN  /\ (n >= least /\ AllDigits(Trimmed(n - 3)))
             => /\ LocatorFound
                /\ code_info.idx = n - 3
                /\ code_info.key = Int_(Trimmed(n - 3))
        /\ LocatorFound => code_info.idx \in 1..n - 3
        /\ (\A idx \in 1..n - 3 :
              \E k \in 1..Len(Trimmed(idx)) :
                Trimmed(idx)[k] \notin Digits \cup {SUP2})
             => LocatorFailed

C9_NoFailureAbortsBatch ==
  /\ stage # "Raised"
  /\ stage = "Done" =>
       /\ Len(trail) = total_rows
       /\ \A k \in 1..Len(trail) :
            trail[k].line = k /\ trail[k].end \in {"Accepted", "Discarded"}
       /\ total_rows = Len(cleaned_rows) + discarded_rows

C10_InLineOrder ==
  /\ Len(row_lines) = Len(cleaned_rows)
  /\ \A a, b \in 1..Len(row_lines) : a < b => row_lines[a] < row_lines[b]
  /\ \A a \in 1..Len(row_lines) :
       /\ trail[row_lines[a]].end = "Accepted"
       /\ trail[row_lines[a]].id = cleaned_rows[a].id

\* C10: the records returned are in the order of their lines (the line
\* numbers strictly increase), and a step never removes or moves a record
\* already appended.
C10_OutputOrder ==
  /\ []C10_InLineOrder
  /\ [][/\ Len(cleaned_rows') >= Len(cleaned_rows)
        /\ SubSeq(cleaned_rows', 1, Len(cleaned_rows)) = cleaned_rows
        /\ SubSeq(row_lines', 1, Len(row_lines)) = row_lines]_vars

\* two records returned at completion
C10_Witness ==
  /\ stage = "Done"
  /\ Len(cleaned_rows) = 2
  /\ row_lines[1] < row_lines[2]

\* the moment H hours, M minutes and S seconds after midnight of the date
\* written in p, counted day by day
Reconstructed(p) ==
  LET total == p.hour * 3600 + p.minute * 60 + p.second
      d == AddDays([year |-> p.year, month |-> p.month, day |-> p.day],
                   total \div 86400)
      rest == total % 86400
  IN  [year |-> d.year, month |-> d.month, day |-> d.day,
       hour |-> rest \div 3600, minute |-> (rest % 3600) \div 60,
       second |-> rest % 60]

\* moment a is no later than moment b
NoLater(a, b) ==
  LET date(m) == (m.year * 13 + m.month) * 32 + m.day
      time(m) == (m.hour * 60 + m.minute) * 60 + m.second
  IN  date(a) < date(b) \/ (date(a) = date(b) /\ time(a) <= time(b))

\* no fractional part, no offset, a single space: nineteen characters
SameFormat(matches) ==
  \A k \in 1..Len(matches) : Len(matches[k]) = 19 /\ matches[k][11] = " "

\* every candidate names a calendar date and a moment up to 9999-12-31
AllReconstruct(matches) ==
  \A k \in 1..Len(matches) :
     /\ ValidDate(StampParts(matches[k]).year, StampParts(matches[k]).month,
                  StampParts(matches[k]).day)
     /\ Reconstructed(StampParts(matches[k])).year <= 9999

\* C11: when the accepted line holds several timestamp candidates of one
\* format (no fraction, no offset, one space), each naming a moment, the
\* expire_date of its record is the latest of the moments reconstructed from
\* all the candidates of the line.
C11_LatestTimestamp ==
  LET matches == FindAllDatetimes(lines[i])
  IN  (/\ stage = "Accepted"
       /\ Len(matches) > 1
       /\ SameFormat(matches)
       /\ AllReconstruct(matches))
      => \A k \in 1..Len(matches) :
            NoLater(Reconstructed(StampParts(matches[k])),
                    StampParts(Last(cleaned_rows).expire_date))

\* the seen-sets hold the ids and the codes of the accepted records
C12_SeenSetsMatch ==
  /\ seen_ids = {cleaned_rows[a].id : a \in 1..Len(cleaned_rows)}
  /\ seen_codes = IF family = "device"
                  THEN {cleaned_rows[a].code : a \in 1..Len(cleaned_rows)}
                  ELSE {}

\* a step that does not accept a line leaves the seen-sets and the records
C12_NothingElseWrites ==
  stage' # "Accepted" => UNCHANGED <<seen_ids, seen_codes, cleaned_rows>>

\* the step that accepts a line adds its id, its code and one record
C12_AcceptanceWrites ==
  (stage' = "Accepted" /\ stage # "Accepted") =>
    /\ device_id = _process_id(fields[1], {}).id
    /\ device_id \notin seen_ids
    /\ seen_ids' = seen_ids \cup {device_id}
    /\ Len(cleaned_rows') = Len(cleaned_rows) + 1
    /\ SubSeq(cleaned_rows', 1, Len(cleaned_rows)) = cleaned_rows
    /\ Last(cleaned_rows').id = device_id
    /\ IF family = "device"
       THEN /\ code_info.key = Strip(fields[code_info.idx + 1])
            /\ code_info.key \notin seen_codes
            /\ seen_codes' = seen_codes \cup {code_info.key}
            /\ Last(cleaned_rows').code = code_info.key
       ELSE seen_codes' = seen_codes

\* C12: no step but the acceptance of a line changes the id-seen-set, the
\* code-seen-set or the accepted records, so a line that ends Discarded leaves
\* them as they were; the acceptance of a line adds exactly that line's id
\* (and, for devices, exactly its code) and appends exactly one record; at
\* every point the id-seen-set is the set of the ids of the accepted records
\* and the code-seen-set the set of their codes.
C12_SeenSetsOnAcceptance ==
  /\ []C12_SeenSetsMatch
  /\ [][C12_NothingElseWrites /\ C12_AcceptanceWrites]_vars

\* a run in which one line was discarded after its id was validated and
\* another accepted
C12_Witness ==
  /\ stage = "Done"
  /\ family = "device"
  /\ seen_ids # {}
  /\ seen_codes # {}
  /\ \E a \in 1..Len(trail) :
       /\ trail[a].end = "Discarded"
       /\ trail[a].reason \in {NoDatetime, NoCode, DuplicateCode}
       /\ trail[a].id \notin seen_ids

\* the stages of a line that are not terminal, and the stage after each
NonTerminal == {"Pending", "IdOk", "TimestampOk", "StatusOk", "KeyOk", "Assembled"}

StageAfter(s) ==
  CASE s = "Pending" -> "IdOk"
    [] s = "IdOk" -> "TimestampOk"
    [] s = "TimestampOk" -> "StatusOk"
    [] s = "StatusOk" -> "KeyOk"
    [] s = "KeyOk" -> "Assembled"
    [] s = "Assembled" -> "Accepted"

\* the stages of a line
LineStages == NonTerminal \cup {"Accepted", "Discarded"}

\* a stage of a line is entered only in order: Pending by the next line, each
\* later stage from the stage before it, Discarded from a stage that is not
\* terminal; a line that is Accepted or Discarded stays so until the next
\* line starts or the run returns
C13_StepInOrder ==
  /\ (stage' \in LineStages /\ stage' # stage) =>
       \/ /\ stage' = "Pending"
          /\ stage \in {"Begun", "Accepted", "Discarded"}
          /\ i' = i + 1
       \/ /\ stage \in NonTerminal
          /\ stage' \in {StageAfter(stage), "Discarded"}
          /\ i' = i
  /\ stage \in {"Accepted", "Discarded"} =>
       \/ i' = i /\ stage' \in {stage, "Done"}
       \/ i' = i + 1 /\ stage' = "Pending"
  /\ stage \in NonTerminal => i' = i

\* the reason of the first check, in the order of the stages, that the line
\* in hand fails
EarliestFailure ==
  LET line == lines[i]
      f == _preprocess_and_split_line(line, delimiter)
      digits == SelectSeq(f[1], LAMBDA c : c \in Digits)
  IN  IF Len(Strip(line)) = 0 THEN EmptyLine
      ELSE IF Len(f) = 0 \/ Len(f[1]) = 0 THEN EmptyAfterProcessing
      ELSE IF Len(digits) = 0 THEN NoNumericId
      ELSE IF Int_(digits) \in seen_ids THEN DuplicateId
      ELSE IF ~_parse_and_clean_datetime(line).ok THEN NoDatetime
      ELSE IF family = "content" THEN NoDeviceId
      ELSE IF \A k \in 1..Len(f) : ~CodeShape(Strip(f[k])) THEN NoCode
      ELSE DuplicateCode

C13_EarliestFailure ==
  stage = "Discarded" => Last(trail).reason = EarliestFailure

\* C13: each line moves through Pending, IdOk, TimestampOk, StatusOk, KeyOk,
\* Assembled, Accepted without skipping or revisiting a stage, goes to
\* Discarded only from a stage that is not terminal, and never leaves
\* Accepted or Discarded; a discarded line is discarded for the earliest
\* check it fails in the order empty line, id (missing, then duplicate),
\* timestamp, key.
C13_StageOrder ==
  /\ []C13_EarliestFailure
  /\ [][C13_StepInOrder]_vars

\* a line with an id seen before and no timestamp, discarded for the id
C13_Witness ==
  /\ stage = "Discarded"
  /\ Last(trail).reason = DuplicateId
  /\ ~_parse_and_clean_datetime(lines[i]).ok
====
